---- MODULE Spec2Model ----
(***************************************************************************)
(* A model of go-repository-cache: the read-through caching decorator      *)
(* (repositorycache.CachedRepository), its key construction                *)
(* (cache.defaultKeySerializer, toSnake, deriveNamespace), the cache       *)
(* backend behind the CacheService interface (internal/cacheinfra adapter) *)
(* and a base repository (the map-backed repository of examples/simple).   *)
(* Go strings are TLA+ strings; keys are built and matched character by    *)
(* character, as strings.Join and strings.HasPrefix do.                    *)
(***************************************************************************)
EXTENDS Integers, Sequences, FiniteSets, TLC

(***************************************************************************)
(* Bounds of the model.                                                    *)
(***************************************************************************)
\* operations (reads and writes) issued in one run
MaxOps == 3
\* operations issued in one run by two decorators that share a cache backend
MaxSharedOps == 2
\* operations issued in one run that also has transactional and bulk calls,
\* callers under a scope and a cache service that returns errors
MaxExtendedOps == 2
\* records passed to one bulk write
MaxBulk == 2
\* calls of one sweep, by position, on which the cache service may return an error
MaxSweepCalls == 8

(***************************************************************************)
(* Strings.                                                                *)
(***************************************************************************)
KeySeparator == "::"

UpperChars == "ABCDEFGHIJKLMNOPQRSTUVWXYZ"
LowerChars == "abcdefghijklmnopqrstuvwxyz"
DigitChars == "0123456789"

CharAt(s, i) == SubSeq(s, i, i)

IndexIn(alphabet, c) ==
    IF \E i \in 1..Len(alphabet) : CharAt(alphabet, i) = c
    THEN CHOOSE i \in 1..Len(alphabet) : CharAt(alphabet, i) = c
    ELSE 0

IsUpper(c) == IndexIn(UpperChars, c) > 0
IsLower(c) == IndexIn(LowerChars, c) > 0
IsDigit(c) == IndexIn(DigitChars, c) > 0
ToLower(c) == IF IsUpper(c) THEN CharAt(LowerChars, IndexIn(UpperChars, c)) ELSE c

\* strings.HasPrefix
HasPrefix(s, prefix) ==
    Len(s) >= Len(prefix) /\ SubSeq(s, 1, Len(prefix)) = prefix

\* strings.Join
RECURSIVE Join(_, _)
Join(parts, sep) ==
    IF Len(parts) = 0 THEN ""
    ELSE IF Len(parts) = 1 THEN parts[1]
    ELSE parts[1] \o sep \o Join(Tail(parts), sep)

\* strings.Trim(s, "_")
RECURSIVE TrimLeft(_)
TrimLeft(s) ==
    IF Len(s) > 0 /\ CharAt(s, 1) = "_" THEN TrimLeft(SubSeq(s, 2, Len(s))) ELSE s

RECURSIVE TrimRight(_)
TrimRight(s) ==
    IF Len(s) > 0 /\ CharAt(s, Len(s)) = "_" THEN TrimRight(SubSeq(s, 1, Len(s) - 1)) ELSE s

Trim(s) == TrimRight(TrimLeft(s))

\* fmt.Sprintf("%d", n)
RECURSIVE NatToStr(_)
NatToStr(n) ==
    IF n < 10 THEN CharAt(DigitChars, n + 1)
    ELSE NatToStr(n \div 10) \o CharAt(DigitChars, (n % 10) + 1)

IntToStr(n) == IF n < 0 THEN "-" \o NatToStr(0 - n) ELSE NatToStr(n)

\* the byte order Go compares strings by, over the printable characters the
\* model's strings are made of
AsciiChars ==
    " ,-./0123456789:=ABCDEFGHIJKLMNOPQRSTUVWXYZ[]_abcdefghijklmnopqrstuvwxyz{}"

RECURSIVE StrLess(_, _)
StrLess(a, b) ==
    IF Len(b) = 0 THEN FALSE
    ELSE IF Len(a) = 0 THEN TRUE
    ELSE IF CharAt(a, 1) = CharAt(b, 1)
         THEN StrLess(SubSeq(a, 2, Len(a)), SubSeq(b, 2, Len(b)))
         ELSE IndexIn(AsciiChars, CharAt(a, 1)) < IndexIn(AsciiChars, CharAt(b, 1))

(***************************************************************************)
(* toSnake: one pass over the runes with the builder b and the flag         *)
(* lastUnderscore, then strings.Trim(b, "_").                              *)
(***************************************************************************)
RECURSIVE toSnakeFrom(_, _, _, _)
toSnakeFrom(s, i, b, lastUnderscore) ==
    IF i > Len(s) THEN b
    ELSE
        LET r    == CharAt(s, i)
            prev == IF i > 1 THEN CharAt(s, i - 1) ELSE ""
            nextLower == i + 1 <= Len(s) /\ IsLower(CharAt(s, i + 1))
        IN  IF IsUpper(r) THEN
                LET sep == Len(b) > 0
                           /\ (IsLower(prev) \/ IsDigit(prev) \/ nextLower)
                           /\ ~lastUnderscore
                IN  toSnakeFrom(s, i + 1,
                                (IF sep THEN b \o "_" ELSE b) \o ToLower(r), FALSE)
            ELSE IF IsLower(r) THEN
                toSnakeFrom(s, i + 1, b \o r, FALSE)
            ELSE IF IsDigit(r) THEN
                LET sep == Len(b) > 0
                           /\ ~IsDigit(prev) /\ prev # "_" /\ ~lastUnderscore
                IN  toSnakeFrom(s, i + 1, (IF sep THEN b \o "_" ELSE b) \o r, FALSE)
            ELSE
                \* underscore, hyphen, white space and every other rune: one underscore
                IF ~lastUnderscore /\ Len(b) > 0
                THEN toSnakeFrom(s, i + 1, b \o "_", TRUE)
                ELSE toSnakeFrom(s, i + 1, b, lastUnderscore)

toSnake(s) == IF s = "" THEN "" ELSE Trim(toSnakeFrom(s, 1, "", FALSE))

(***************************************************************************)
(* Go values handed to the key serializer.  A value carries its kind, as   *)
(* reflect.Kind does, and its type name where the serializer reads it.     *)
(***************************************************************************)
NilValue       == [kind |-> "nil"]
StringValue(s) == [kind |-> "string", str |-> s]
IntValue(n)    == [kind |-> "int", int |-> n]
BoolValue(b)   == [kind |-> "bool", bool |-> b]
\* a function value: %p prints the address of its code
FuncValue(addr) == [kind |-> "func", addr |-> addr]
\* a pointer: nil, or the value it points to
PtrValue(isNil, elem) == [kind |-> "ptr", isNil |-> isNil, elem |-> elem]
SliceValue(isNil, elems) == [kind |-> "slice", isNil |-> isNil, elems |-> elems]
\* entries in the order the map happens to be iterated in
MapValue(isNil, entries) == [kind |-> "map", isNil |-> isNil, entries |-> entries]
MapEntry(k, v) == [key |-> k, value |-> v]
StructValue(fields) == [kind |-> "struct", fields |-> fields]
StructField(name, exported, v) == [name |-> name, exported |-> exported, value |-> v]

\* reflect.Type.String() of the types map keys have in the model
TypeString(v) == v.kind

\* fmt.Sprintf("%v", v) of a basic value
FormatBasic(v) ==
    CASE v.kind = "string" -> v.str
      [] v.kind = "int"    -> IntToStr(v.int)
      [] v.kind = "bool"   -> IF v.bool THEN "true" ELSE "false"

isBasicType(kind) == kind \in {"bool", "int", "string"}

\* sort.Slice on the keySort field: insertion into the sorted prefix
RECURSIVE InsertSorted(_, _)
InsertSorted(sorted, e) ==
    IF Len(sorted) = 0 THEN <<e>>
    ELSE IF StrLess(e.keySort, sorted[1].keySort) THEN <<e>> \o sorted
    ELSE <<sorted[1]>> \o InsertSorted(Tail(sorted), e)

RECURSIVE SortEntries(_)
SortEntries(entries) ==
    IF Len(entries) = 0 THEN <<>>
    ELSE InsertSorted(SortEntries(SubSeq(entries, 1, Len(entries) - 1)),
                      entries[Len(entries)])

RECURSIVE serializeValue(_)
\* a map key without the name of its type
serializeMapKeyUntyped(key) ==
    serializeValue(key)

serializeMapKey(key) ==
    TypeString(key) \o ":" \o serializeValue(key)

serializeSlice(v) ==
    "slice[" \o IntToStr(Len(v.elems)) \o "]:{"
        \o Join([i \in 1..Len(v.elems) |-> serializeValue(v.elems[i])], ",") \o "}"

serializeMap(v) ==
    LET entries == [i \in 1..Len(v.entries) |->
                      [keySort  |-> serializeMapKey(v.entries[i].key),
                       keyValue |-> serializeMapKey(v.entries[i].key),
                       value    |-> serializeValue(v.entries[i].value)]]
        sorted  == SortEntries(entries)
        pairs   == [i \in 1..Len(sorted) |-> sorted[i].keyValue \o "=" \o sorted[i].value]
    IN  "map[" \o IntToStr(Len(sorted)) \o "]:{" \o Join(pairs, ",") \o "}"

serializeStruct(v) ==
    LET exported == SelectSeq(v.fields, LAMBDA f : f.exported)
        parts    == [i \in 1..Len(exported) |->
                       exported[i].name \o ":" \o serializeValue(exported[i].value)]
    IN  "struct:{" \o Join(parts, ",") \o "}"

serializeValue(v) ==
    CASE v.kind = "nil"    -> "nil"
      [] v.kind = "func"   -> "func:" \o v.addr
      [] v.kind = "ptr"    -> IF v.isNil THEN "nil" ELSE serializeValue(v.elem)
      [] v.kind = "slice"  -> IF v.isNil THEN "slice:nil" ELSE serializeSlice(v)
      [] v.kind = "map"    -> IF v.isNil THEN "map:nil" ELSE serializeMap(v)
      [] v.kind = "struct" -> serializeStruct(v)
      [] isBasicType(v.kind) -> FormatBasic(v)

\* defaultKeySerializer.SerializeKey
SerializeKey(method, args) ==
    IF Len(args) = 0 THEN method
    ELSE Join(<<method>> \o [i \in 1..Len(args) |-> serializeValue(args[i])],
              KeySeparator)

(***************************************************************************)
(* The record type T of a decorator and the records of the base            *)
(* repository.  A record is a struct with the exported fields ID and       *)
(* Email, both strings.                                                    *)
(***************************************************************************)
\* reflect.Type of T: its package path, its name, and whether T is a pointer
\* to the named type
GoType(pkg, name, pointer) == [pkg |-> pkg, name |-> name, pointer |-> pointer]
UserType  == GoType("main", "User", FALSE)
OrderType == GoType("main", "Order", FALSE)
\* the record types decorators are instantiated with
RecordTypes == {UserType, OrderType, GoType("admin", "User", FALSE)}

ReadMethods == {"Get", "GetByID", "GetByIdentifier", "List", "Count"}

IDs    == {"1", "10"}
Emails == {"a", "b"}
NewUser(id, email) == [ID |-> id, Email |-> email]
ZeroUser == NewUser("", "")
\* records a caller passes to a write: the id of a stored record, or none yet;
\* an identifier value, or none
Records == [ID : IDs \cup {""}, Email : Emails \cup {""}]

NoError == ""

\* the decorators that share the cache backend
Decorators == {"self", "peer"}

VARIABLES
    types,          \* d -> the record type T the decorator d is instantiated with
    users,          \* d -> fakeUserRepository.users of d's base repository
    baseDefaults,   \* d -> the scope defaults held by d's base repository
    scopeDefaults,  \* d -> CachedRepository.scopeDefaults
    identifiers,    \* d -> CachedRepository.identifiers
    storage,        \* the entries of the cache backend: key -> entry
    last,           \* the call made last through a decorator, and what it did
    nops,           \* calls made so far
    scopeDefaultsMu,\* CachedRepository.scopeDefaultsMu of the decorator self
    goroutines,     \* g -> where the goroutine g is in its call, and its locals
    serialized      \* the two calls of SerializeKey made last, and their outcomes

vars == <<types, users, baseDefaults, scopeDefaults, identifiers, storage, last, nops,
          scopeDefaultsMu, goroutines, serialized>>

(***************************************************************************)
(* Namespace and method keys.                                              *)
(***************************************************************************)
\* pointers are dereferenced, and typ.Name() is the name without the package path
deriveNamespace(typ) == toSnake(typ.name)

\* the namespace of every record type and the token of every cached method,
\* computed once
NamespaceOf == [typ \in RecordTypes |-> deriveNamespace(typ)]
MethodToken == [method \in ReadMethods |-> toSnake(method)]

namespace(d) == NamespaceOf[types[d]]

methodKey(d, method) == Join(<<namespace(d), MethodToken[method]>>, KeySeparator)

key(d, method, args) == SerializeKey(methodKey(d, method), args)

\* a prefix that leaves the segments out
methodPrefixOfMethod(d, method, segments) == methodKey(d, method)

methodPrefix(d, method, segments) ==
    IF Len(segments) = 0 THEN methodKey(d, method)
    ELSE methodKey(d, method) \o KeySeparator \o Join(segments, KeySeparator)

methodPrefixWithSeparator(d, method) == methodKey(d, method) \o KeySeparator

(***************************************************************************)
(* Scope: the request context carries the selected scope names and the     *)
(* scope payloads; the signature folds them with the scope defaults.       *)
(***************************************************************************)
NoDefaults     == [Select |-> <<>>]
TenantDefaults == [Select |-> <<"tenant">>]

Background == [scopes |-> <<>>, data |-> <<>>]
\* repository.WithScopeData(repository.WithSelectScopes(ctx, "tenant"), "tenant", t)
TenantContext(t) == [scopes |-> <<"tenant">>, data |-> <<[name |-> "tenant", payload |-> t]>>]
Contexts == {Background, TenantContext("tenant-a"), TenantContext("tenant-b")}

RECURSIVE dedupeStrings(_)
dedupeStrings(values) ==
    IF Len(values) = 0 THEN <<>>
    ELSE LET init == dedupeStrings(SubSeq(values, 1, Len(values) - 1))
             v    == values[Len(values)]
         IN  IF v = "" \/ \E i \in 1..Len(init) : init[i] = v THEN init
             ELSE Append(init, v)

\* repository.ResolveScopeState for the select operation
ResolveScopeState(ctx, defaults) ==
    [Names |-> dedupeStrings(defaults.Select \o ctx.scopes), Data |-> ctx.data]

scopeSignature(d, ctx) == ResolveScopeState(ctx, scopeDefaults[d])

IsZero(signature) == Len(signature.Names) = 0 /\ Len(signature.Data) = 0

\* a signature that keeps the scope names and leaves the payloads out
SignatureNamesOnly(signature) ==
    StructValue(<<
        StructField("Names", TRUE,
            SliceValue(FALSE, [i \in 1..Len(signature.Names) |->
                                  StringValue(signature.Names[i])]))>>)

\* the signature as the value the key serializer is given
SignatureValue(signature) ==
    StructValue(<<
        StructField("Names", TRUE,
            SliceValue(FALSE, [i \in 1..Len(signature.Names) |->
                                  StringValue(signature.Names[i])])),
        StructField("Data", TRUE,
            MapValue(FALSE, [i \in 1..Len(signature.Data) |->
                                MapEntry(StringValue(signature.Data[i].name),
                                         StringValue(signature.Data[i].payload))]))>>)

\* select criteria are function values
NoCriteria  == <<>>
SomeCriteria == <<FuncValue("0xc000012340")>>
CriteriaLists == {NoCriteria, SomeCriteria}

\* the key of Get, List and Count: the signature, then the criteria
criteriaKey(d, method, ctx, criteria) ==
    LET signature == scopeSignature(d, ctx)
        args == IF IsZero(signature) THEN criteria
                ELSE <<SignatureValue(signature)>> \o criteria
    IN  key(d, method, args)

\* a lookup key with the signature before the id
lookupKeySignatureFirst(d, method, ctx, id, criteria) ==
    criteriaKey(d, method, ctx, <<StringValue(id)>> \o criteria)

\* the key of GetByID and GetByIdentifier: the id, the signature, the criteria
lookupKey(d, method, ctx, id, criteria) ==
    LET signature == scopeSignature(d, ctx)
        args == (IF IsZero(signature) THEN <<StringValue(id)>>
                 ELSE <<StringValue(id), SignatureValue(signature)>>) \o criteria
    IN  key(d, method, args)

(***************************************************************************)
(* The base repository (fakeUserRepository): a map from id to record.      *)
(* A read is given by the set of results it may return; there is more      *)
(* than one where the code ranges over the map, whose order is not fixed.  *)
(***************************************************************************)
Result(val, err) == [val |-> val, err |-> err]
\* a list result whose total is not the one returned with the records
ListResultStaleTotal(records, total) == [Records |-> records, Total |-> 0]
ListResult(records, total) == [Records |-> records, Total |-> total]

Present(u) == DOMAIN u
Put(u, record) == [i \in Present(u) \cup {record.ID} |->
                      IF i = record.ID THEN record ELSE u[i]]
Remove(u, id) == [i \in Present(u) \ {id} |-> u[i]]
NoUsers == [i \in {} |-> ZeroUser]

\* Get returns r.users["1"], the zero record when there is none
baseGet(u) == {Result(IF "1" \in Present(u) THEN u["1"] ELSE ZeroUser, NoError)}

baseGetByID(u, id) ==
    IF id \in Present(u) THEN {Result(u[id], NoError)}
    ELSE {Result(ZeroUser, "user not found")}

\* the records are kept as a set: List appends them in map order
baseList(u) ==
    {Result(ListResult({u[i] : i \in Present(u)}, Cardinality(Present(u))), NoError)}

baseCount(u) == {Result(Cardinality(Present(u)), NoError)}

baseGetByIdentifier(u, identifier) ==
    IF \E i \in Present(u) : u[i].Email = identifier
    THEN {Result(u[i], NoError) : i \in {j \in Present(u) : u[j].Email = identifier}}
    ELSE {Result(ZeroUser, "user not found with identifier")}

\* what the base repository may answer to the read `method`
baseRead(u, method, id) ==
    CASE method = "Get"             -> baseGet(u)
      [] method = "GetByID"         -> baseGetByID(u, id)
      [] method = "List"            -> baseList(u)
      [] method = "Count"           -> baseCount(u)
      [] method = "GetByIdentifier" -> baseGetByIdentifier(u, id)

\* the zero value of the result type of a read
zeroOf(method) ==
    CASE method \in {"Get", "GetByID", "GetByIdentifier"} -> ZeroUser
      [] method = "List"  -> ListResult({}, 0)
      [] method = "Count" -> 0

\* the Go type of the value a read stores: T, listResult[T] or int
storedType(d, method) ==
    CASE method \in {"Get", "GetByID", "GetByIdentifier"} -> <<"record", types[d]>>
      [] method = "List"  -> <<"listResult", types[d]>>
      [] method = "Count" -> <<"int", types[d]>>

(***************************************************************************)
(* The cache backend (sturdycService): entries by key.  An entry keeps     *)
(* the stored value and its Go type; `signature` and `owner` record the    *)
(* scope signature and the decorator of the read that stored it.           *)
(***************************************************************************)
Entry(val, type, signature, owner) ==
    [val |-> val, type |-> type, signature |-> signature, owner |-> owner]

Keys(store) == DOMAIN store
NoEntries == [k \in {} |-> 0]
\* a backend that drops what it is given to store
StoreNothing(store, k, entry) == store
Store(store, k, entry) == [x \in Keys(store) \cup {k} |-> IF x = k THEN entry ELSE store[x]]

\* the calls of the CacheService interface an invalidation makes
DeleteCall(k)         == [call |-> "Delete", arg |-> k]
DeleteByPrefixCall(p) == [call |-> "DeleteByPrefix", arg |-> p]

\* sturdycService.Delete
Delete(store, k) == [x \in Keys(store) \ {k} |-> store[x]]

\* sturdycService.DeleteByPrefix: scan the keys, delete those with the prefix
DeleteByPrefix(store, prefix) ==
    [x \in {k \in Keys(store) : ~HasPrefix(k, prefix)} |-> store[x]]

applyCall(store, c) ==
    IF c.call = "Delete" THEN Delete(store, c.arg) ELSE DeleteByPrefix(store, c.arg)

\* the calls of a sweep, one after the other
RECURSIVE applySweep(_, _)
applySweep(store, sweep) ==
    IF Len(sweep) = 0 THEN store
    ELSE applySweep(applyCall(store, sweep[1]), Tail(sweep))

(***************************************************************************)
(* Identity extraction and the invalidation sweeps of the decorator.       *)
(* A sweep is the sequence of cache calls the decorator issues.            *)
(***************************************************************************)
\* reflect.Value.FieldByName(name).IsValid()
HasField(record, name) == name \in DOMAIN record

\* the first of ID, Id, id the record has, printed with %v
extractID(record) ==
    IF HasField(record, "ID") THEN [id |-> record["ID"], ok |-> TRUE]
    ELSE IF HasField(record, "Id") THEN [id |-> record["Id"], ok |-> TRUE]
    ELSE IF HasField(record, "id") THEN [id |-> record["id"], ok |-> TRUE]
    ELSE [id |-> "", ok |-> FALSE]

\* valueToString of a string field
valueToString(v) == [str |-> IF v = "" THEN "" ELSE v, ok |-> v # ""]

RECURSIVE identifierValues(_, _)
identifierValues(record, fields) ==
    IF Len(fields) = 0 THEN <<>>
    ELSE LET rest == identifierValues(record, Tail(fields))
         IN  IF HasField(record, fields[1]) /\ valueToString(record[fields[1]]).ok
             THEN <<valueToString(record[fields[1]]).str>> \o rest
             ELSE rest

\* an extraction that reports success whatever it found
extractIdentifierValuesAlwaysOk(d, record) ==
    [values |-> identifierValues(record, identifiers[d]), ok |-> TRUE]

extractIdentifierValues(d, record) ==
    IF Len(identifiers[d]) = 0 THEN [values |-> <<>>, ok |-> FALSE]
    ELSE LET values == identifierValues(record, identifiers[d])
         IN  [values |-> values, ok |-> Len(values) > 0]

invalidateGetCaches(d) ==
    <<DeleteCall(key(d, "Get", <<>>)),
      DeleteByPrefixCall(methodPrefixWithSeparator(d, "Get"))>>

invalidateListAndCount(d) ==
    <<DeleteCall(key(d, "List", <<>>)),
      DeleteByPrefixCall(methodPrefixWithSeparator(d, "List")),
      DeleteCall(key(d, "Count", <<>>)),
      DeleteByPrefixCall(methodPrefixWithSeparator(d, "Count"))>>

\* a record sweep that leaves the by-id prefix out
invalidateRecordCachesByIdentifier(d, record) ==
    <<DeleteByPrefixCall(methodPrefixWithSeparator(d, "GetByIdentifier"))>>

\* a record sweep that deletes the one by-id key built without a scope
invalidateRecordCachesUnscoped(d, record) ==
    <<DeleteCall(lookupKey(d, "GetByID", Background, record.ID, NoCriteria)),
      DeleteByPrefixCall(methodPrefixWithSeparator(d, "GetByIdentifier"))>>

invalidateRecordCaches(d, record) ==
    LET id  == extractID(record)
        ids == extractIdentifierValues(d, record)
        nonEmpty == SelectSeq(ids.values, LAMBDA v : v # "")
    IN  (IF id.ok /\ id.id # ""
         THEN <<DeleteByPrefixCall(methodPrefix(d, "GetByID", <<id.id>>))>>
         ELSE <<>>)
        \o
        (IF ids.ok
         THEN [i \in 1..Len(nonEmpty) |->
                  DeleteByPrefixCall(methodPrefix(d, "GetByIdentifier", <<nonEmpty[i]>>))]
         ELSE <<DeleteByPrefixCall(methodPrefixWithSeparator(d, "GetByIdentifier"))>>)

RECURSIVE invalidateRecords(_, _)
invalidateRecords(d, records) ==
    IF Len(records) = 0 THEN <<>>
    ELSE invalidateRecordCaches(d, records[1]) \o invalidateRecords(d, Tail(records))

invalidateAfterCreate(d, records) ==
    invalidateRecords(d, records) \o invalidateGetCaches(d) \o invalidateListAndCount(d)

invalidateAfterUpdate(d, record) ==
    invalidateRecordCaches(d, record) \o invalidateGetCaches(d) \o invalidateListAndCount(d)

\* a delete sweep that covers the query caches only
invalidateAfterDeleteQueries(d, record) ==
    invalidateGetCaches(d) \o invalidateListAndCount(d)

invalidateAfterDelete(d, record) == invalidateAfterUpdate(d, record)

\* one invalidateAfterUpdate for every record: nothing for no record
RECURSIVE invalidateAfterBulkUpdate(_, _)
invalidateAfterBulkUpdate(d, records) ==
    IF Len(records) = 0 THEN <<>>
    ELSE invalidateAfterUpdate(d, records[1])
         \o invalidateAfterBulkUpdate(d, Tail(records))

invalidateAfterBulkCreate(d, records) == invalidateAfterCreate(d, records)

\* a criteria sweep without the exact keys of List, Count and Get
invalidateAfterCriteriaOperationPrefixes(d) ==
    <<DeleteByPrefixCall(methodPrefixWithSeparator(d, "GetByID")),
      DeleteByPrefixCall(methodPrefixWithSeparator(d, "GetByIdentifier")),
      DeleteByPrefixCall(methodPrefixWithSeparator(d, "List")),
      DeleteByPrefixCall(methodPrefixWithSeparator(d, "Count")),
      DeleteByPrefixCall(methodPrefixWithSeparator(d, "Get"))>>

invalidateAfterCriteriaOperation(d) ==
    <<DeleteByPrefixCall(methodPrefixWithSeparator(d, "GetByID")),
      DeleteByPrefixCall(methodPrefixWithSeparator(d, "GetByIdentifier"))>>
    \o invalidateListAndCount(d) \o invalidateGetCaches(d)

(***************************************************************************)
(* The calls.  `last` describes the call just made: the method, its        *)
(* arguments, what it returned, how often it called the base repository,   *)
(* the cache calls it issued and the keys those removed.                   *)
(***************************************************************************)
BaseError == "base error"

\* what a call keeps of the call made before it
Summary(call) ==
    [d |-> call.d, op |-> call.op, id |-> call.id, record |-> call.record,
     result |-> call.result, key |-> call.key, baseCalls |-> call.baseCalls]

\* `evicted`: the key of this call was removed by the sweep of the call before;
\* `base`: what the base repository returned to a write; `failed`: the calls
\* of the sweep, by position, from which the cache service returned an error;
\* `reported`: those of them the decorator logged or handed to its caller
Call(d, op, ctx, id, criteria, record, result, baseCalls, k, sweep, removed) ==
    [d |-> d, op |-> op, ctx |-> ctx, id |-> id, criteria |-> criteria,
     record |-> record, result |-> result, baseCalls |-> baseCalls, key |-> k,
     sweep |-> sweep, removed |-> removed,
     prev |-> Summary(last), evicted |-> k \in last.removed, failed |-> {},
     base |-> result, reported |-> {}]

\* sturdycService.GetOrFetch: a stored entry is returned as it is; on a miss
\* the fetch function runs and its value is stored unless it returned an error
cacheGetOrFetch(store, k, fetched, type, signature, owner) ==
    IF k \in Keys(store) THEN [entry |-> store[k], err |-> NoError, store |-> store]
    ELSE IF fetched.err # NoError
         THEN [entry |-> Entry(fetched.val, type, signature, owner),
               err |-> fetched.err, store |-> store]
         ELSE [entry |-> Entry(fetched.val, type, signature, owner), err |-> NoError,
               store |-> Store(store, k, Entry(fetched.val, type, signature, owner))]

\* a cache.GetOrFetch that drops the error of the cache service
GetOrFetchDroppingError(got, type, zero) ==
    IF got.entry.type = type THEN Result(got.entry.val, NoError)
    ELSE Result(zero, NoError)

\* cache.GetOrFetch: the zero value with the error; the value when it has the
\* requested type, the zero value when it has another
GetOrFetch(got, type, zero) ==
    IF got.err # NoError THEN Result(zero, got.err)
    ELSE IF got.entry.type = type THEN Result(got.entry.val, NoError)
    ELSE Result(zero, NoError)

\* a cached read: the key, then cache.GetOrFetch with the base repository's
\* method as the fetch function
readThrough(d, method, ctx, id, criteria, k) ==
    /\ nops < MaxOps
    /\ nops' = nops + 1
    /\ UNCHANGED <<types, users, baseDefaults, scopeDefaults, identifiers,
                   scopeDefaultsMu, goroutines, serialized>>
    /\ \E fetched \in baseRead(users[d], method, id) :
          LET got == cacheGetOrFetch(storage, k, fetched, storedType(d, method),
                                     scopeSignature(d, ctx), d)
          IN  /\ storage' = got.store
              /\ last' = Call(d, method, ctx, id, criteria, ZeroUser,
                              GetOrFetch(got, storedType(d, method), zeroOf(method)),
                              IF k \in Keys(storage) THEN 0 ELSE 1, k, <<>>, {})

Get(d) ==
    \E ctx \in Contexts, criteria \in CriteriaLists :
        readThrough(d, "Get", ctx, "", criteria, criteriaKey(d, "Get", ctx, criteria))

GetByID(d) ==
    \E ctx \in Contexts, id \in IDs, criteria \in CriteriaLists :
        readThrough(d, "GetByID", ctx, id, criteria,
                    lookupKey(d, "GetByID", ctx, id, criteria))

List(d) ==
    \E ctx \in Contexts, criteria \in CriteriaLists :
        readThrough(d, "List", ctx, "", criteria, criteriaKey(d, "List", ctx, criteria))

Count(d) ==
    \E ctx \in Contexts, criteria \in CriteriaLists :
        readThrough(d, "Count", ctx, "", criteria, criteriaKey(d, "Count", ctx, criteria))

GetByIdentifier(d) ==
    \E ctx \in Contexts, identifier \in Emails, criteria \in CriteriaLists :
        readThrough(d, "GetByIdentifier", ctx, identifier, criteria,
                    lookupKey(d, "GetByIdentifier", ctx, identifier, criteria))

\* the sweep a write issues: the invalidation, only when the base repository
\* returned no error
\* a sweep issued whatever the base repository returned
issuedSweepAlways(result, sweep) == sweep
issuedSweep(result, sweep) == IF result.err = NoError THEN sweep ELSE <<>>

\* how a write is called: the method, the context of the caller, and the calls
\* of its sweep (by position) on which the cache service returns an error
How(op, ctx, failing) == [op |-> op, ctx |-> ctx, failing |-> failing]

\* the calls of a sweep, one after the other: deleteKey and deleteByPrefix
\* drop the error of the cache service, so the next call is made whatever
\* the one before returned; a call that returns an error removed nothing
RECURSIVE issueFrom(_, _, _, _, _)
issueFrom(store, sweep, i, failing, stopOnError) ==
    IF i > Len(sweep) THEN [store |-> store, made |-> <<>>, errors |-> {}]
    ELSE IF i \in failing
         THEN LET rest == IF stopOnError
                          THEN [store |-> store, made |-> <<>>, errors |-> {}]
                          ELSE issueFrom(store, sweep, i + 1, failing, stopOnError)
              IN  [store |-> rest.store, made |-> <<sweep[i]>> \o rest.made,
                   errors |-> {i} \cup rest.errors]
         ELSE LET rest == issueFrom(applyCall(store, sweep[i]), sweep, i + 1,
                                    failing, stopOnError)
              IN  [store |-> rest.store, made |-> <<sweep[i]>> \o rest.made,
                   errors |-> rest.errors]

\* a sweep that ends at the first call that returns an error
issueSweepUntilError(store, sweep, failing) == issueFrom(store, sweep, 1, failing, TRUE)
issueSweep(store, sweep, failing) == issueFrom(store, sweep, 1, failing, FALSE)

\* a write that returns the error of the cache service when there is one
\* deleteKey and deleteByPrefix assign the error of the cache call to the
\* blank identifier: none is logged, none is returned
reportedErrors(errors) == {}

returnedWithCacheError(result, errors) ==
    IF errors # {} THEN Result(result.val, "cache error") ELSE result
\* what a write returns: the result and the error of the base repository
returned(result, errors) == result

\* a write: the base repository call with its result and the users it leaves,
\* then the sweep; the write returns the result of the base repository
writeAs(d, how, record, result, usersAfter, sweep) ==
    /\ nops < MaxOps
    /\ nops' = nops + 1
    /\ UNCHANGED <<types, baseDefaults, scopeDefaults, identifiers,
                   scopeDefaultsMu, goroutines, serialized>>
    /\ users' = [users EXCEPT ![d] = usersAfter]
    /\ LET issued == issueSweep(storage, issuedSweep(result, sweep), how.failing)
       IN  /\ storage' = issued.store
           /\ last' = [Call(d, how.op, how.ctx, "", NoCriteria, record,
                            returned(result, issued.errors), 1, "", issued.made,
                            Keys(storage) \ Keys(issued.store))
                          EXCEPT !.failed = issued.errors, !.base = result,
                                        !.reported = reportedErrors(issued.errors)]

write(d, op, record, result, usersAfter, sweep) ==
    writeAs(d, How(op, Background, {}), record, result, usersAfter, sweep)

\* records with an id
Identified == {r \in Records : r.ID # ""}
\* a caller creates records that are not stored yet, without an id or with a
\* new one, and updates and deletes records that are stored
NewRecords(u) == {r \in Records : r.ID \notin Present(u)}
StoredRecords(u) == {r \in Records : r.ID \in Present(u)}

\* a base repository that fails returns its error and the zero record
Failed == Result(ZeroUser, BaseError)

\* Create and CreateTx: the base repository gives a record without id a fresh one
createAs(d, how) ==
    \E record \in NewRecords(users[d]), uuid \in IDs, fail \in BOOLEAN :
        /\ record.ID = "" => uuid \notin Present(users[d])
        /\ record.ID # "" => uuid = record.ID
        /\ LET created == [record EXCEPT !.ID = uuid]
               result  == IF fail THEN Failed ELSE Result(created, NoError)
           IN  writeAs(d, how, record, result,
                       IF fail THEN users[d] ELSE Put(users[d], created),
                       invalidateAfterCreate(d, <<result.val>>))

Create(d) == createAs(d, How("Create", Background, {}))

\* Update, Upsert and their Tx forms, for a record out of `candidates`
updateAs(d, how, candidates) ==
    \E record \in candidates, fail \in BOOLEAN :
        LET result == IF fail THEN Failed ELSE Result(record, NoError)
        IN  writeAs(d, how, record, result,
                    IF fail THEN users[d] ELSE Put(users[d], record),
                    invalidateAfterUpdate(d, result.val))

Update(d) == updateAs(d, How("Update", Background, {}), StoredRecords(users[d]))

Upsert(d) == updateAs(d, How("Upsert", Background, {}), Identified)

\* Delete and DeleteTx return only an error; the sweep is computed from the
\* record passed in
deleteAs(d, how) ==
    \E record \in StoredRecords(users[d]), fail \in BOOLEAN :
        writeAs(d, how, record,
                IF fail THEN Failed ELSE Result(ZeroUser, NoError),
                IF fail THEN users[d] ELSE Remove(users[d], record.ID),
                invalidateAfterDelete(d, record))

Delete_(d) == deleteAs(d, How("Delete", Background, {}))

\* DeleteMany of the base repository deletes every record
criteriaDelete(d, op) ==
    \E fail \in BOOLEAN :
        write(d, op, ZeroUser,
              IF fail THEN Failed ELSE Result(ZeroUser, NoError),
              IF fail THEN users[d] ELSE NoUsers,
              invalidateAfterCriteriaOperation(d))

DeleteMany(d)    == criteriaDelete(d, "DeleteMany")
DeleteManyTx(d)  == criteriaDelete(d, "DeleteManyTx")
DeleteWhere(d)   == criteriaDelete(d, "DeleteWhere")
DeleteWhereTx(d) == criteriaDelete(d, "DeleteWhereTx")

SampleUsers == Put(NoUsers, NewUser("1", "a"))

\* the goroutines that call SetScopeDefaults and those that call a cached read
Setters == {"s1", "s2"}
Readers == {"r1"}

\* a goroutine before its call
Idle == [pc |-> "start", defaults |-> NoDefaults, seen |-> NoDefaults, key |-> ""]

\* before any call of SerializeKey
NoneSerialized ==
    [method |-> "", a |-> <<>>, b |-> <<>>,
     first |-> [returned |-> TRUE, key |-> ""],
     second |-> [returned |-> TRUE, key |-> ""]]

\* the zero sync.RWMutex
Unlocked == [writer |-> FALSE, readers |-> 0]

NoCall ==
    [d |-> "self", op |-> "New", ctx |-> Background, id |-> "", criteria |-> NoCriteria,
     record |-> ZeroUser, result |-> Result(ZeroUser, NoError), baseCalls |-> 0,
     key |-> "", sweep |-> <<>>, removed |-> {},
     prev |-> [d |-> "self", op |-> "New", id |-> "", record |-> ZeroUser,
               result |-> Result(ZeroUser, NoError), key |-> "", baseCalls |-> 0],
     evicted |-> FALSE, failed |-> {}, base |-> Result(ZeroUser, NoError),
     reported |-> {}]

\* after New or NewWithIdentifierFields(..., "Email") over a repository with
\* sample data, and an empty cache
Init ==
    /\ types = [d \in Decorators |-> IF d = "self" THEN UserType ELSE OrderType]
    /\ users = [d \in Decorators |-> SampleUsers]
    /\ baseDefaults = [d \in Decorators |-> NoDefaults]
    /\ scopeDefaults = [d \in Decorators |-> NoDefaults]
    /\ \E fields \in {<<>>, <<"Email">>} :
          identifiers = [d \in Decorators |-> fields]
    /\ storage = NoEntries
    /\ last = NoCall
    /\ nops = 0
    /\ scopeDefaultsMu = Unlocked
    /\ goroutines = [g \in Setters \cup Readers |-> Idle]
    /\ serialized = NoneSerialized

Step(d) ==
    \/ Get(d)
    \/ GetByID(d)
    \/ List(d)
    \/ Count(d)
    \/ GetByIdentifier(d)
    \/ Create(d)
    \/ Update(d)
    \/ Upsert(d)
    \/ Delete_(d)
    \/ DeleteMany(d)
    \/ DeleteManyTx(d)
    \/ DeleteWhere(d)
    \/ DeleteWhereTx(d)

Next == Step("self")

Spec == Init /\ [][Next]_vars

\* two decorators over different record types on one cache backend, each over
\* its own base repository
InitShared ==
    /\ \E typ \in RecordTypes \ {UserType} :
          types = [d \in Decorators |-> IF d = "self" THEN UserType ELSE typ]
    /\ users = [d \in Decorators |-> SampleUsers]
    /\ baseDefaults = [d \in Decorators |-> NoDefaults]
    /\ scopeDefaults = [d \in Decorators |-> NoDefaults]
    /\ identifiers = [d \in Decorators |-> <<"Email">>]
    /\ storage = NoEntries
    /\ last = NoCall
    /\ nops = 0
    /\ scopeDefaultsMu = Unlocked
    /\ goroutines = [g \in Setters \cup Readers |-> Idle]
    /\ serialized = NoneSerialized

NextShared == nops < MaxSharedOps /\ \E d \in Decorators : Step(d)

SpecShared == InitShared /\ [][NextShared]_vars

(***************************************************************************)
(* The transactional and bulk writes, writes of callers under a scope,     *)
(* writes during which the cache service returns errors, and the reads     *)
(* that bypass the cache.                                                  *)
(***************************************************************************)
\* a transactional update that goes to the base repository and nowhere else
TxWriteWithoutInvalidation(d) ==
    \E record \in StoredRecords(users[d]) :
        writeAs(d, How("UpdateTx", Background, {}), record, Result(record, NoError),
                Put(users[d], record), <<>>)

\* CreateTx, UpdateTx, UpsertTx, DeleteTx
TxWrite(d) ==
    \/ createAs(d, How("CreateTx", Background, {}))
    \/ updateAs(d, How("UpdateTx", Background, {}), StoredRecords(users[d]))
    \/ updateAs(d, How("UpsertTx", Background, {}), Identified)
    \/ deleteAs(d, How("DeleteTx", Background, {}))

\* the lists of records of a bulk write: no two records with the same id
BulkLists ==
    {records \in UNION {[1..n -> Identified] : n \in 0..MaxBulk} :
        \A i, j \in 1..Len(records) : i # j => records[i].ID # records[j].ID}

RECURSIVE PutAll(_, _)
PutAll(u, records) ==
    IF Len(records) = 0 THEN u ELSE PutAll(Put(u, records[1]), Tail(records))

\* CreateMany, UpdateMany, UpsertMany and their Tx forms: the base repository
\* writes the records one by one and returns them
BulkWrite(d) ==
    \E op \in {"CreateMany", "CreateManyTx", "UpdateMany", "UpdateManyTx",
               "UpsertMany", "UpsertManyTx"},
       records \in BulkLists, fail \in BOOLEAN :
        /\ op \in {"CreateMany", "CreateManyTx"}
           => \A i \in 1..Len(records) : records[i].ID \notin Present(users[d])
        /\ op \in {"UpdateMany", "UpdateManyTx"}
           => \A i \in 1..Len(records) : records[i].ID \in Present(users[d])
        /\ LET result == IF fail THEN Result(<<>>, BaseError)
                         ELSE Result(records, NoError)
           IN  writeAs(d, How(op, Background, {}), ZeroUser, result,
                       IF fail THEN users[d] ELSE PutAll(users[d], records),
                       IF op \in {"CreateMany", "CreateManyTx"}
                       THEN invalidateAfterBulkCreate(d, result.val)
                       ELSE invalidateAfterBulkUpdate(d, result.val))

\* Update and Delete called with a context that carries a scope
ScopedWrite(d) ==
    \E ctx \in Contexts \ {Background} :
        \/ updateAs(d, How("Update", ctx, {}), StoredRecords(users[d]))
        \/ deleteAs(d, How("Delete", ctx, {}))

\* Create, Update and Delete while the cache service returns an error from
\* one call of the sweep, or from every call
FaultyWrite(d) ==
    \E failing \in {{i} : i \in 1..MaxSweepCalls} \cup {1..MaxSweepCalls} :
        \/ createAs(d, How("Create", Background, failing))
        \/ updateAs(d, How("Update", Background, failing), StoredRecords(users[d]))
        \/ deleteAs(d, How("Delete", Background, failing))

\* Raw of the base repository returns every record
baseRaw(u) == {Result({u[i] : i \in Present(u)}, NoError)}

\* the cached read each transactional read corresponds to
Bypassed ==
    [GetTx |-> "Get", GetByIDTx |-> "GetByID", ListTx |-> "List",
     CountTx |-> "Count", GetByIdentifierTx |-> "GetByIdentifier"]

\* a GetByIDTx that reads through the cache as GetByID does
BypassThroughCache(d) ==
    \E id \in IDs : \E fetched \in baseRead(users[d], "GetByID", id) :
        LET k == lookupKey(d, "GetByID", Background, id, NoCriteria)
            got == cacheGetOrFetch(storage, k, fetched, storedType(d, "GetByID"),
                                   scopeSignature(d, Background), d)
        IN  /\ nops < MaxOps
            /\ nops' = nops + 1
            /\ UNCHANGED <<types, users, baseDefaults, scopeDefaults, identifiers,
                   scopeDefaultsMu, goroutines, serialized>>
            /\ storage' = got.store
            /\ last' = Call(d, "GetByIDTx", Background, id, NoCriteria, ZeroUser,
                            GetOrFetch(got, storedType(d, "GetByID"), zeroOf("GetByID")),
                            IF k \in Keys(storage) THEN 0 ELSE 1, k, <<>>, {})

\* GetTx, GetByIDTx, ListTx, CountTx, GetByIdentifierTx, Raw, RawTx: the call
\* of the base repository and nothing else
Bypass(d) ==
    \E op \in DOMAIN Bypassed \cup {"Raw", "RawTx"}, ctx \in Contexts,
       id \in IDs \cup Emails :
        /\ op \in {"GetByIDTx"} => id \in IDs
        /\ op \in {"GetByIdentifierTx"} => id \in Emails
        /\ op \notin {"GetByIDTx", "GetByIdentifierTx"} => id = "1"
        /\ nops < MaxOps
        /\ nops' = nops + 1
        /\ UNCHANGED <<types, users, baseDefaults, scopeDefaults, identifiers, storage,
                   scopeDefaultsMu, goroutines, serialized>>
        /\ \E fetched \in IF op \in {"Raw", "RawTx"} THEN baseRaw(users[d])
                          ELSE baseRead(users[d], Bypassed[op], id) :
              last' = Call(d, op, ctx, id, NoCriteria, ZeroUser, fetched, 1, "",
                           <<>>, {})

CacheError == "cache error"

\* a cached read on a cache service whose GetOrFetch returns an error for the
\* key (mockCacheService.errors): nothing is fetched and nothing is stored
FaultyRead(d) ==
    \E method \in ReadMethods, ctx \in Contexts, id \in IDs \cup Emails \cup {""},
       criteria \in CriteriaLists :
        /\ method = "GetByID" => id \in IDs
        /\ method = "GetByIdentifier" => id \in Emails
        /\ method \notin {"GetByID", "GetByIdentifier"} => id = ""
        /\ nops < MaxOps
        /\ nops' = nops + 1
        /\ UNCHANGED <<types, users, baseDefaults, scopeDefaults, identifiers, storage,
                   scopeDefaultsMu, goroutines, serialized>>
        /\ LET k   == IF method \in {"GetByID", "GetByIdentifier"}
                      THEN lookupKey(d, method, ctx, id, criteria)
                      ELSE criteriaKey(d, method, ctx, criteria)
               got == [entry |-> Entry(NilValue, <<"nil", types[d]>>,
                                       scopeSignature(d, ctx), d),
                       err |-> CacheError, store |-> storage]
           IN  last' = [Call(d, method, ctx, id, criteria, ZeroUser,
                             GetOrFetch(got, storedType(d, method), zeroOf(method)),
                             0, k, <<>>, {})
                        EXCEPT !.failed = {1}, !.reported = {1}]

NextExtended ==
    /\ nops < MaxExtendedOps
    /\ \/ Step("self")
       \/ TxWrite("self")
       \/ BulkWrite("self")
       \/ ScopedWrite("self")
       \/ FaultyWrite("self")
       \/ Bypass("self")
       \/ FaultyRead("self")

SpecExtended == Init /\ [][NextExtended]_vars

(***************************************************************************)
(* SetScopeDefaults and cached reads of the decorator self, called from     *)
(* several goroutines.  The assignment of a ScopeDefaults value copies the  *)
(* slice header word by word: the data pointer, then the length.            *)
(***************************************************************************)
RegionDefaults == [Select |-> <<"region", "org">>]

\* SetScopeDefaults up to the return of c.base.SetScopeDefaults(defaults)
SetScopeDefaults(d, g) ==
    /\ goroutines[g].pc = "start"
    /\ \E defaults \in {TenantDefaults, RegionDefaults} :
          /\ baseDefaults' = [baseDefaults EXCEPT ![d] = defaults]
          /\ goroutines' = [goroutines EXCEPT ![g].pc = "Lock", ![g].defaults = defaults]
    /\ UNCHANGED <<types, users, scopeDefaults, identifiers, storage, last, nops,
                   scopeDefaultsMu, serialized>>

\* a lock that lets readers in while a writer holds it
RLockAdmitsAlways(mu) == TRUE

\* RWMutex.RLock returns when no writer holds the lock
RLockAdmits(mu) == ~mu.writer

\* setScopeDefaults: Lock, the assignment of the clone, Unlock
setScopeDefaults(d, g) ==
    /\ \/ /\ goroutines[g].pc = "Lock"
          /\ ~scopeDefaultsMu.writer /\ scopeDefaultsMu.readers = 0
          /\ scopeDefaultsMu' = [scopeDefaultsMu EXCEPT !.writer = TRUE]
          /\ goroutines' = [goroutines EXCEPT ![g].pc = "data"]
          /\ UNCHANGED scopeDefaults
       \/ /\ goroutines[g].pc = "data"
          /\ LET old == scopeDefaults[d].Select
                 new == goroutines[g].defaults.Select
                 len == IF Len(old) < Len(new) THEN Len(old) ELSE Len(new)
             IN  scopeDefaults' = [scopeDefaults EXCEPT ![d].Select = SubSeq(new, 1, len)]
          /\ goroutines' = [goroutines EXCEPT ![g].pc = "len"]
          /\ UNCHANGED scopeDefaultsMu
       \/ /\ goroutines[g].pc = "len"
          /\ scopeDefaults' = [scopeDefaults EXCEPT ![d] = goroutines[g].defaults]
          /\ goroutines' = [goroutines EXCEPT ![g].pc = "Unlock"]
          /\ UNCHANGED scopeDefaultsMu
       \/ /\ goroutines[g].pc = "Unlock"
          /\ scopeDefaultsMu' = [scopeDefaultsMu EXCEPT !.writer = FALSE]
          /\ goroutines' = [goroutines EXCEPT ![g].pc = "done"]
          /\ UNCHANGED scopeDefaults
    /\ UNCHANGED <<types, users, baseDefaults, identifiers, storage, last, nops,
                   serialized>>

\* the key List builds from the scope defaults it holds and the context
keyUnder(d, ctx, defaults) ==
    LET signature == ResolveScopeState(ctx, defaults)
    IN  key(d, "List", IF IsZero(signature) THEN <<>>
                       ELSE <<SignatureValue(signature)>>)

\* a cached read up to its key: currentScopeDefaults (RLock, the clone,
\* RUnlock), then the signature and the key
currentScopeDefaults(d, g) ==
    /\ \/ /\ goroutines[g].pc = "start"
          /\ RLockAdmits(scopeDefaultsMu)
          /\ scopeDefaultsMu' = [scopeDefaultsMu EXCEPT !.readers = @ + 1]
          /\ goroutines' = [goroutines EXCEPT ![g].pc = "clone"]
       \/ /\ goroutines[g].pc = "clone"
          /\ goroutines' = [goroutines EXCEPT ![g].pc = "RUnlock",
                                              ![g].seen = scopeDefaults[d]]
          /\ UNCHANGED scopeDefaultsMu
       \/ /\ goroutines[g].pc = "RUnlock"
          /\ scopeDefaultsMu' = [scopeDefaultsMu EXCEPT !.readers = @ - 1]
          /\ goroutines' = [goroutines EXCEPT
                               ![g].pc = "done",
                               ![g].key = keyUnder(d, Background, goroutines[g].seen)]
    /\ UNCHANGED <<types, users, baseDefaults, scopeDefaults, identifiers, storage,
                   last, nops, serialized>>

NextScope ==
    \/ \E g \in Setters : SetScopeDefaults("self", g)
    \/ \E g \in Setters : setScopeDefaults("self", g)
    \/ \E g \in Readers : currentScopeDefaults("self", g)

SpecScope == Init /\ [][NextScope]_vars

(***************************************************************************)
(* The key serializer on its own: SerializeKey called on two argument      *)
(* lists.  Arguments may hold pointers into a heap, and the heap may hold  *)
(* a cycle.                                                                *)
(***************************************************************************)
\* the depth of serializeValue calls the goroutine's stack has room for
MaxDepth == 8

\* a pointer to the value the heap holds at addr
RefValue(addr) == [kind |-> "ref", addr |-> addr]
\* what a call of serializeValue that ran out of stack leaves
StackOverflow == [kind |-> "overflow"]

\* type Node struct{ Next *Node }: a list of two nodes, and a node whose Next
\* is the node itself
SampleHeap ==
    [n1 |-> StructValue(<<StructField("Next", TRUE, RefValue("n2"))>>),
     n2 |-> StructValue(<<StructField("Next", TRUE, PtrValue(TRUE, NilValue))>>),
     c1 |-> StructValue(<<StructField("Next", TRUE, RefValue("c1"))>>)]

\* the recursion of serializeValue through pointers, slices and struct
\* fields: the value with every pointer replaced by what it points to, or
\* StackOverflow once the calls are nested deeper than the stack allows
RECURSIVE unfold(_, _, _)
unfold(heap, v, depth) ==
    IF depth > MaxDepth THEN StackOverflow
    ELSE CASE v.kind = "ref" ->
                LET elem == unfold(heap, heap[v.addr], depth + 1)
                IN  IF elem.kind = "overflow" THEN StackOverflow
                    ELSE PtrValue(FALSE, elem)
           [] v.kind = "ptr" /\ ~v.isNil ->
                LET elem == unfold(heap, v.elem, depth + 1)
                IN  IF elem.kind = "overflow" THEN StackOverflow
                    ELSE PtrValue(FALSE, elem)
           [] v.kind = "slice" /\ ~v.isNil ->
                LET elems == [i \in 1..Len(v.elems) |-> unfold(heap, v.elems[i], depth + 1)]
                IN  IF \E i \in 1..Len(elems) : elems[i].kind = "overflow"
                    THEN StackOverflow
                    ELSE SliceValue(FALSE, elems)
           [] v.kind = "struct" ->
                LET fields == [i \in 1..Len(v.fields) |->
                                 IF v.fields[i].exported
                                 THEN StructField(v.fields[i].name, TRUE,
                                          unfold(heap, v.fields[i].value, depth + 1))
                                 ELSE v.fields[i]]
                IN  IF \E i \in 1..Len(fields) : fields[i].value.kind = "overflow"
                    THEN StackOverflow
                    ELSE StructValue(fields)
           [] OTHER -> v

\* a call of SerializeKey: the key it returns, or no return when the
\* recursion does not end
serializeKeyOn(heap, method, args) ==
    LET values == [i \in 1..Len(args) |-> unfold(heap, args[i], 1)]
    IN  IF \E i \in 1..Len(values) : values[i].kind = "overflow"
        THEN [returned |-> FALSE, key |-> ""]
        ELSE [returned |-> TRUE, key |-> SerializeKey(method, values)]

\* repository.Where(field, value): the closure of one function literal over
\* its parameters; every closure of the literal has the literal's code address
Where(field, value) ==
    [kind |-> "func", addr |-> "0x4a5b60", captured |-> <<field, value>>]
\* a time.Time: a struct with no exported field
Time(wall) == StructValue(<<StructField("wall", FALSE, IntValue(wall))>>)

\* the argument lists SerializeKey is called with
ArgLists ==
    {<<>>,
     <<StringValue("a")>>, <<StringValue("1")>>, <<IntValue(1)>>,
     <<BoolValue(TRUE)>>, <<NilValue>>, <<StringValue("nil")>>,
     <<StringValue("a"), StringValue("b")>>, <<StringValue("a::b")>>,
     <<MapValue(FALSE, <<MapEntry(IntValue(1), StringValue("v"))>>)>>,
     <<MapValue(FALSE, <<MapEntry(StringValue("1"), StringValue("v"))>>)>>,
     <<MapValue(FALSE, <<MapEntry(StringValue("a"), IntValue(1)),
                         MapEntry(StringValue("b"), IntValue(2))>>)>>,
     <<MapValue(FALSE, <<MapEntry(StringValue("b"), IntValue(2)),
                         MapEntry(StringValue("a"), IntValue(1))>>)>>,
     <<MapValue(FALSE, <<MapEntry(Time(1), StringValue("x")),
                         MapEntry(Time(2), StringValue("y"))>>)>>,
     <<MapValue(FALSE, <<MapEntry(Time(2), StringValue("y")),
                         MapEntry(Time(1), StringValue("x"))>>)>>,
     <<Where("active", BoolValue(TRUE))>>, <<Where("active", BoolValue(FALSE))>>,
     <<PtrValue(FALSE, StringValue("a"))>>,
     <<SliceValue(FALSE, <<IntValue(1)>>)>>,
     <<RefValue("n1")>>, <<RefValue("c1")>>}

MethodKeys == {"user::list", "user::get_by_id"}

\* two calls of SerializeKey for one method
Serialize ==
    /\ \E method \in MethodKeys : \E a \in ArgLists : \E b \in ArgLists :
          serialized' = [method |-> method, a |-> a, b |-> b,
                         first  |-> serializeKeyOn(SampleHeap, method, a),
                         second |-> serializeKeyOn(SampleHeap, method, b)]
    /\ UNCHANGED <<types, users, baseDefaults, scopeDefaults, identifiers, storage,
                   last, nops, scopeDefaultsMu, goroutines>>

NextSerialize == Serialize

SpecSerialize == Init /\ [][NextSerialize]_vars

(***************************************************************************)
(* The cache configuration and the container built from it.  Durations    *)
(* are in milliseconds.                                                    *)
(***************************************************************************)
NilEarlyRefresh == [isNil |-> TRUE]
EarlyRefreshConfig(min, max, sync, retry) ==
    [isNil |-> FALSE, MinAsyncRefreshTime |-> min, MaxAsyncRefreshTime |-> max,
     SyncRefreshTime |-> sync, RetryBaseDelay |-> retry]

\* the configurations a caller builds: each field at its zero value, at the
\* value of DefaultConfig, or out of range
Configs ==
    [Capacity : {0, 10000}, NumShards : {0, 256}, TTL : {0, 300000},
     EvictionPercentage : {0, 10, 101},
     EarlyRefresh : {NilEarlyRefresh, EarlyRefreshConfig(10000, 20000, 30000, 100),
                     EarlyRefreshConfig(0 - 1, 20000, 30000, 100)},
     MissingRecordStorage : BOOLEAN, EvictionInterval : {0}]

ConfigError(field, message) == "config error in field " \o field \o ": " \o message

\* a validation that does not look at Capacity
ValidateWithoutCapacity(c) ==
    IF c.NumShards <= 0 THEN ConfigError("NumShards", "must be greater than 0")
    ELSE IF c.TTL <= 0 THEN ConfigError("TTL", "must be greater than 0")
    ELSE NoError

\* Config.Validate
Validate(c) ==
    IF c.Capacity <= 0 THEN ConfigError("Capacity", "must be greater than 0")
    ELSE IF c.NumShards <= 0 THEN ConfigError("NumShards", "must be greater than 0")
    ELSE IF c.TTL <= 0 THEN ConfigError("TTL", "must be greater than 0")
    ELSE IF c.EvictionPercentage < 1 \/ c.EvictionPercentage > 100
         THEN ConfigError("EvictionPercentage", "must be between 1 and 100")
    ELSE IF ~c.EarlyRefresh.isNil /\ c.EarlyRefresh.MinAsyncRefreshTime < 0
         THEN ConfigError("EarlyRefresh.MinAsyncRefreshTime", "must be non-negative")
    ELSE IF ~c.EarlyRefresh.isNil /\ c.EarlyRefresh.MaxAsyncRefreshTime < 0
         THEN ConfigError("EarlyRefresh.MaxAsyncRefreshTime", "must be non-negative")
    ELSE IF ~c.EarlyRefresh.isNil /\ c.EarlyRefresh.SyncRefreshTime < 0
         THEN ConfigError("EarlyRefresh.SyncRefreshTime", "must be non-negative")
    ELSE IF ~c.EarlyRefresh.isNil /\ c.EarlyRefresh.RetryBaseDelay < 0
         THEN ConfigError("EarlyRefresh.RetryBaseDelay", "must be non-negative")
    ELSE NoError

NoContainer == [isNil |-> TRUE]

\* NewSturdycService: nil and the error of Validate, or a service on a fresh
\* sturdyc client
NewSturdycService(cfg) ==
    IF Validate(cfg) # NoError THEN Result(NoContainer, Validate(cfg))
    ELSE Result([isNil |-> FALSE, client |-> NoEntries], NoError)

\* di.NewContainer: the error of NewSturdycService, or a container with the
\* service, the default key serializer and the configuration
NewContainer ==
    \E config \in Configs :
        /\ LET service == NewSturdycService(config)
               result  == IF service.err # NoError THEN Result(NoContainer, service.err)
                          ELSE Result([isNil |-> FALSE, cacheService |-> service.val,
                                       config |-> config], NoError)
           IN  last' = Call("self", "NewContainer", Background, "", NoCriteria, config,
                            result, 0, "", <<>>, {})
        /\ UNCHANGED <<types, users, baseDefaults, scopeDefaults, identifiers, storage,
                       nops, scopeDefaultsMu, goroutines, serialized>>

NextConfig == NewContainer

SpecConfig == Init /\ [][NextConfig]_vars

(***************************************************************************)
(* A cached read and a write in two goroutines, step by step: the read     *)
(* looks the key up, calls the base repository and stores; the write       *)
(* calls the base repository and then issues the calls of its sweep.       *)
(***************************************************************************)
\* GetByID(ctx, id) in the goroutine g: on a miss sturdyc calls the fetch
\* function and stores what it returned in a second step
GetByIDSteps(d, g) ==
    /\ \/ /\ goroutines[g].pc = "start"
          /\ \E id \in IDs :
                LET k == lookupKey(d, "GetByID", Background, id, NoCriteria)
                IN  IF k \in Keys(storage)
                    THEN goroutines' = [goroutines EXCEPT ![g] =
                            [pc |-> "done", id |-> id, key |-> k, missed |-> FALSE,
                             fetched |-> Result(storage[k].val, NoError), at |-> nops]]
                    ELSE \E fetched \in baseGetByID(users[d], id) :
                            goroutines' = [goroutines EXCEPT ![g] =
                               [pc |-> "store", id |-> id, key |-> k, missed |-> TRUE,
                                fetched |-> fetched, at |-> nops]]
          /\ UNCHANGED storage
       \/ /\ goroutines[g].pc = "store"
          /\ storage' = IF goroutines[g].fetched.err # NoError THEN storage
                        ELSE Store(storage, goroutines[g].key,
                                   Entry(goroutines[g].fetched.val,
                                         storedType(d, "GetByID"),
                                         scopeSignature(d, Background), d))
          /\ goroutines' = [goroutines EXCEPT ![g].pc = "done", ![g].at = nops]
    /\ UNCHANGED <<types, users, baseDefaults, scopeDefaults, identifiers, last, nops,
                   scopeDefaultsMu, serialized>>

\* a write that issues its sweep before it calls the base repository
stepsSweepFirst == <<"invalidate", "base", "done">>
\* Update: c.base.Update, then invalidateAfterUpdate, then the return
steps == <<"base", "invalidate", "done">>
stepAfter(pc) == IF pc = steps[1] THEN steps[2] ELSE steps[3]

\* Update(ctx, record) in the goroutine g; `issued` are the cache calls made
\* so far, `inFlight` those that have not returned yet, `written` whether the
\* base repository has returned
UpdateSteps(d, g) ==
    /\ \/ /\ goroutines[g].pc = "start"
          /\ \E record \in StoredRecords(users[d]) :
                goroutines' = [goroutines EXCEPT ![g] =
                    [pc |-> steps[1], record |-> record, before |-> users[d][record.ID],
                     sweep |-> invalidateAfterUpdate(d, record), issued |-> <<>>,
                     written |-> FALSE, inFlight |-> 0, at |-> nops]]
          /\ UNCHANGED <<users, storage>>
       \/ /\ goroutines[g].pc = "base"
          /\ users' = [users EXCEPT ![d] = Put(users[d], goroutines[g].record)]
          /\ goroutines' = [goroutines EXCEPT ![g].pc = stepAfter("base"),
                                              ![g].written = TRUE]
          /\ UNCHANGED storage
       \/ /\ goroutines[g].pc = "invalidate"
          /\ goroutines[g].inFlight = 0
          /\ Len(goroutines[g].issued) < Len(goroutines[g].sweep)
          /\ LET c == goroutines[g].sweep[Len(goroutines[g].issued) + 1]
             IN  /\ storage' = applyCall(storage, c)
                 /\ goroutines' = [goroutines EXCEPT ![g].issued = Append(@, c),
                                                     ![g].inFlight = @ + 1]
          /\ UNCHANGED users
       \/ /\ goroutines[g].pc = "invalidate"
          /\ goroutines[g].inFlight > 0
          /\ goroutines' = [goroutines EXCEPT ![g].inFlight = @ - 1]
          /\ UNCHANGED <<users, storage>>
       \/ /\ goroutines[g].pc = "invalidate"
          /\ goroutines[g].inFlight = 0
          /\ Len(goroutines[g].issued) = Len(goroutines[g].sweep)
          /\ goroutines' = [goroutines EXCEPT ![g].pc = stepAfter("invalidate"),
                                              ![g].at = nops]
          /\ UNCHANGED <<users, storage>>
    /\ UNCHANGED <<types, baseDefaults, scopeDefaults, identifiers, last, nops,
                   scopeDefaultsMu, serialized>>

\* the calls made through the decorator next to the two goroutines
MaxRaceOps == 2

NextRace ==
    \/ GetByIDSteps("self", "r1")
    \/ UpdateSteps("self", "s1")
    \/ nops < MaxRaceOps /\ GetByID("self")

SpecRace == Init /\ [][NextRace]_vars

(***************************************************************************)
(* A transaction of the caller that contains an UpdateTx.  What the        *)
(* transaction wrote is in the base repository for reads outside it once   *)
(* the transaction has committed.                                          *)
(***************************************************************************)
\* WithTx(ctx, func(tx) { UpdateTx(ctx, tx, record) }) in the goroutine g:
\* UpdateTx calls c.base.UpdateTx and invalidateAfterUpdate, the commit
\* follows when the function returns
WithTx(d, g) ==
    /\ \/ /\ goroutines[g].pc = "start"
          /\ \E record \in StoredRecords(users[d]) :
                /\ storage' = issueSweep(storage, invalidateAfterUpdate(d, record),
                                         {}).store
                /\ goroutines' = [goroutines EXCEPT ![g] =
                      [pc |-> "commit", record |-> record,
                       before |-> users[d][record.ID], at |-> nops]]
          /\ UNCHANGED users
       \/ /\ goroutines[g].pc = "commit"
          /\ users' = [users EXCEPT ![d] = Put(users[d], goroutines[g].record)]
          /\ goroutines' = [goroutines EXCEPT ![g].pc = "done", ![g].at = nops]
          /\ UNCHANGED storage
    /\ UNCHANGED <<types, baseDefaults, scopeDefaults, identifiers, last, nops,
                   scopeDefaultsMu, serialized>>

NextTx ==
    \/ WithTx("self", "s1")
    \/ GetByID("self")

SpecTx == Init /\ [][NextTx]_vars

(***************************************************************************)
(* A cached List next to SetScopeDefaults: the key is built from the scope *)
(* defaults the decorator holds, the result comes from the base            *)
(* repository, which applies the scope defaults it holds itself.           *)
(***************************************************************************)
\* the rest of List after the key: cache.GetOrFetch, whose fetch function
\* calls c.base.List; `applied` is the scope the base repository resolved
\* for the call
fetchUnderKey(d, g) ==
    /\ goroutines[g].pc = "done"
    /\ goroutines[g].key \notin Keys(storage)
    /\ \E fetched \in baseList(users[d]) :
          /\ storage' = Store(storage, goroutines[g].key,
                              Entry(fetched.val, storedType(d, "List"),
                                    ResolveScopeState(Background, goroutines[g].seen), d))
          /\ goroutines' = [goroutines EXCEPT ![g] =
                [pc |-> "stored", defaults |-> goroutines[g].defaults,
                 seen |-> goroutines[g].seen, key |-> goroutines[g].key,
                 applied |-> ResolveScopeState(Background, baseDefaults[d])]]
    /\ UNCHANGED <<types, users, baseDefaults, scopeDefaults, identifiers, last, nops,
                   scopeDefaultsMu, serialized>>

NextScopedRead ==
    \/ \E g \in Setters : SetScopeDefaults("self", g)
    \/ \E g \in Setters : setScopeDefaults("self", g)
    \/ \E g \in Readers : currentScopeDefaults("self", g)
    \/ \E g \in Readers : fetchUnderKey("self", g)

SpecScopedRead == Init /\ [][NextScopedRead]_vars

(***************************************************************************)
(* A decorator over a record type whose key field is not named ID, Id or   *)
(* id (type Session struct{ Key string; Email string }).                   *)
(***************************************************************************)
\* the record as the struct extractID and extractIdentifierValues are given
WithoutIDField(record) == [Key |-> record.ID, Email |-> record.Email]

\* Update of a stored record of that type
UpdateWithoutIDField(d) ==
    \E record \in StoredRecords(users[d]), fail \in BOOLEAN :
        LET result == IF fail THEN Failed ELSE Result(record, NoError)
        IN  writeAs(d, How("Update", Background, {}), WithoutIDField(record), result,
                    IF fail THEN users[d] ELSE Put(users[d], record),
                    invalidateAfterUpdate(d, WithoutIDField(result.val)))

\* Delete of a stored record of that type
DeleteWithoutIDField(d) ==
    \E record \in StoredRecords(users[d]), fail \in BOOLEAN :
        writeAs(d, How("Delete", Background, {}), WithoutIDField(record),
                IF fail THEN Failed ELSE Result(ZeroUser, NoError),
                IF fail THEN users[d] ELSE Remove(users[d], record.ID),
                invalidateAfterDelete(d, WithoutIDField(record)))

NextWithoutIDField ==
    \/ GetByID("self")
    \/ UpdateWithoutIDField("self")
    \/ DeleteWithoutIDField("self")

SpecWithoutIDField == Init /\ [][NextWithoutIDField]_vars

(***************************************************************************)
(* A decorator built with the key serializer of the README:                *)
(* New(baseRepo, cacheService, &CustomKeySerializer{prefix: "myapp:v1"}).  *)
(***************************************************************************)
CustomKeySerializer(prefix) == [prefix |-> prefix]
MyApp == CustomKeySerializer("myapp:v1")

\* fmt.Sprintf("%s:%s:%s", s.prefix, method, /* serialize args */)
CustomSerializeKey(s, method, args) ==
    s.prefix \o ":" \o method \o ":"
        \o Join([i \in 1..Len(args) |-> serializeValue(args[i])], ":")

\* CachedRepository.key with that serializer in c.keySerializer
keyWith(s, d, method, args) == CustomSerializeKey(s, methodKey(d, method), args)

\* GetByID: the id, the signature if it is not zero, the criteria
GetByIDWith(s, d) ==
    \E ctx \in Contexts, id \in IDs, criteria \in CriteriaLists :
        LET signature == scopeSignature(d, ctx)
            args == (IF IsZero(signature) THEN <<StringValue(id)>>
                     ELSE <<StringValue(id), SignatureValue(signature)>>) \o criteria
        IN  readThrough(d, "GetByID", ctx, id, criteria, keyWith(s, d, "GetByID", args))

\* deleteKey goes through c.key, deleteByPrefix through methodPrefix
invalidateAfterUpdateWith(s, d, record) ==
    invalidateRecordCaches(d, record) \o
    <<DeleteCall(keyWith(s, d, "Get", <<>>)),
      DeleteByPrefixCall(methodPrefixWithSeparator(d, "Get")),
      DeleteCall(keyWith(s, d, "List", <<>>)),
      DeleteByPrefixCall(methodPrefixWithSeparator(d, "List")),
      DeleteCall(keyWith(s, d, "Count", <<>>)),
      DeleteByPrefixCall(methodPrefixWithSeparator(d, "Count"))>>

UpdateWith(s, d) ==
    \E record \in StoredRecords(users[d]), fail \in BOOLEAN :
        LET result == IF fail THEN Failed ELSE Result(record, NoError)
        IN  writeAs(d, How("Update", Background, {}), record, result,
                    IF fail THEN users[d] ELSE Put(users[d], record),
                    invalidateAfterUpdateWith(s, d, result.val))

NextCustomKeySerializer ==
    \/ GetByIDWith(MyApp, "self")
    \/ UpdateWith(MyApp, "self")

SpecCustomKeySerializer == Init /\ [][NextCustomKeySerializer]_vars

(***************************************************************************)
(* The properties.  They are stated over `last`, the call just made, and   *)
(* `last.prev`, the call made before it.                                   *)
(***************************************************************************)
RecordWrites == {"Create", "Update", "Upsert", "Delete"}
CriteriaDeletes == {"DeleteMany", "DeleteManyTx", "DeleteWhere", "DeleteWhereTx"}

ReadCall == last.op \in ReadMethods
Succeeded(call) == call.result.err = NoError
\* the call before was the same read: same decorator, method, scope, arguments
Repeated == ReadCall /\ last.prev.op = last.op /\ last.prev.d = last.d
            /\ last.prev.key = last.key

\* the record a record write affects: the one the base repository returned,
\* for Delete the one passed in
Affected(call) == IF call.op = "Delete" THEN call.record ELSE call.result.val

\* the key a read builds
readKey(d, method, ctx, id, criteria) ==
    IF method \in {"GetByID", "GetByIdentifier"}
    THEN lookupKey(d, method, ctx, id, criteria)
    ELSE criteriaKey(d, method, ctx, criteria)

\* C1: in a sequential run where the data changes only through the decorator's
\* writes and nothing expires, every cached read returns a result the base
\* repository would return for the same call at that moment.
C1_ReadsReturnBaseResult ==
    ReadCall => last.result \in baseRead(users[last.d], last.op, last.id)

\* C2: after a successful Update of the record with some id, the next
\* GetByID of that id calls the base repository and returns the updated record.
C2_UpdateThenGetByIDRefetches ==
    (/\ last.op = "GetByID"
     /\ last.prev.op = "Update" /\ Succeeded(last.prev)
     /\ last.prev.record.ID = last.id)
    => /\ last.baseCalls = 1
       /\ last.result = Result(last.prev.record, NoError)

\* GetByID(id) was cached, Update of id removed the entry, GetByID(id) was
\* made again
C2_Witness ==
    /\ last.op = "GetByID"
    /\ last.prev.op = "Update" /\ Succeeded(last.prev)
    /\ last.prev.record.ID = last.id
    /\ last.evicted

\* C3: after a successful Delete of a record, the next GetByID of its id
\* reaches the base repository and returns what it returns (not found, once
\* the record is gone).
C3_DeleteThenGetByIDRefetches ==
    (/\ last.op = "GetByID"
     /\ last.prev.op = "Delete" /\ Succeeded(last.prev)
     /\ last.prev.record.ID = last.id)
    => /\ last.baseCalls = 1
       /\ last.result \in baseGetByID(users[last.d], last.id)
       /\ last.result.err = "user not found"

C3_Witness ==
    /\ last.op = "GetByID"
    /\ last.prev.op = "Delete" /\ Succeeded(last.prev)
    /\ last.prev.record.ID = last.id
    /\ last.evicted
    /\ last.result.err # NoError

\* the keys of a namespace under the five cached methods start with one of these
CachedMethodTokens == {"get_by_id", "get_by_identifier", "get", "list", "count"}
UnderNamespace(d, k) ==
    \E token \in CachedMethodTokens :
        HasPrefix(k, namespace(d) \o KeySeparator \o token)

\* C4: after a successful DeleteMany, DeleteWhere or one of their Tx variants no
\* entry of the decorator's namespace remains under get_by_id,
\* get_by_identifier, get, list or count, and the next List and the next Count
\* call the base repository.
C4_CriteriaDeleteClearsNamespace ==
    /\ (last.op \in CriteriaDeletes /\ Succeeded(last))
       => \A k \in Keys(storage) : ~UnderNamespace(last.d, k)
    /\ (last.op \in {"List", "Count"}
        /\ last.prev.op \in CriteriaDeletes /\ Succeeded(last.prev))
       => last.baseCalls = 1

\* a List or Count was cached, a criteria delete removed it, the same read
\* was made again
C4_Witness ==
    /\ last.op \in {"List", "Count"}
    /\ last.prev.op \in CriteriaDeletes /\ Succeeded(last.prev)
    /\ last.evicted
    /\ last.baseCalls = 1

\* the same scopes and payload names, another payload
DiffersOnlyInPayload(a, b) ==
    /\ a.scopes = b.scopes
    /\ Len(a.data) = Len(b.data)
    /\ \A i \in 1..Len(a.data) : a.data[i].name = b.data[i].name
    /\ \E i \in 1..Len(a.data) : a.data[i].payload # b.data[i].payload

\* C5: for two contexts that differ only in the scope payload the same read
\* has two different keys, and a read never gets a value that was cached
\* under the other context.
C5_ScopePayloadSeparatesEntries ==
    ReadCall =>
        /\ \A ctx \in Contexts :
              DiffersOnlyInPayload(ctx, last.ctx)
              => readKey(last.d, last.op, ctx, last.id, last.criteria) # last.key
        /\ last.baseCalls = 0
           => storage[last.key].signature = scopeSignature(last.d, last.ctx)

\* a read under tenant-b misses although the same read is cached for tenant-a
C5_Witness ==
    /\ ReadCall
    /\ last.ctx = TenantContext("tenant-b")
    /\ last.baseCalls = 1
    /\ readKey(last.d, last.op, TenantContext("tenant-a"), last.id, last.criteria)
          \in Keys(storage)

\* argument sequences two decorators may both be called with
SampleArgs == {<<>>, <<StringValue("1")>>, <<StringValue("1")>> \o SomeCriteria}

\* C6: two decorators over different record types on one backend never build
\* the same key for the same operation and the same argument sequence.
C6_TypesNeverShareKeys ==
    \A d1, d2 \in Decorators :
        types[d1] # types[d2]
        => \A method \in ReadMethods, args \in SampleArgs :
              key(d1, method, args) # key(d2, method, args)

C8_FailedWriteIssuesNoDelete ==
    (last.op \in RecordWrites \cup CriteriaDeletes /\ ~Succeeded(last))
    => /\ last.sweep = <<>>
       /\ last.removed = {}
       /\ last.result.err = BaseError

\* a write failed while the cache held entries its sweep would have removed
C8_Witness ==
    /\ last.op \in RecordWrites \cup CriteriaDeletes
    /\ ~Succeeded(last)
    /\ Keys(storage) # {}
    /\ last.prev.op \in ReadMethods

\* the by-id keys of other ids and the by-identifier keys of values the
\* record does not hold
KeysOfOthers(d, record) ==
    {lookupKey(d, "GetByID", ctx, id, criteria) :
        <<ctx, id, criteria>> \in Contexts \X (IDs \ {record.ID}) \X CriteriaLists}
    \cup
    {lookupKey(d, "GetByIdentifier", ctx, v, criteria) :
        <<ctx, v, criteria>> \in Contexts \X (Emails \ {record.Email}) \X CriteriaLists}

\* C9: a successful write of a record removes, of the GetByID and
\* GetByIdentifier entries, only those of that record: the entries of another
\* id or another identifier value stay in the cache.
C9_OtherRecordsStayCached ==
    (last.op \in RecordWrites /\ Succeeded(last))
    => last.removed \cap KeysOfOthers(last.d, Affected(last)) = {}

Range(seq) == {seq[i] : i \in 1..Len(seq)}

\* C10: for the record a successful create, update, upsert or delete affects,
\* the decorator deletes the prefix namespace::get_by_id::<id> and, for every
\* identifier value resolved from it, namespace::get_by_identifier::<value>.
C10_RecordPrefixesDeleted ==
    (last.op \in RecordWrites /\ Succeeded(last))
    => LET record == Affected(last)
           ns == namespace(last.d)
           fields == identifiers[last.d]
       IN  /\ DeleteByPrefixCall(ns \o "::get_by_id::" \o record.ID)
                 \in Range(last.sweep)
           /\ \A i \in 1..Len(fields) :
                 record[fields[i]] # ""
                 => DeleteByPrefixCall(ns \o "::get_by_identifier::" \o record[fields[i]])
                       \in Range(last.sweep)

\* an update of a record with an id and an identifier value removed entries
C10_Witness ==
    /\ last.op \in RecordWrites /\ Succeeded(last)
    /\ identifiers[last.d] = <<"Email">>
    /\ Affected(last).Email # ""
    /\ last.removed # {}

\* the record holds no non-empty value in any configured identifier field
NoIdentifierValue(d, record) ==
    \A i \in 1..Len(identifiers[d]) : record[identifiers[d][i]] = ""

TxRecordWrites == {"CreateTx", "UpdateTx", "UpsertTx", "DeleteTx"}
BulkWrites == {"CreateMany", "CreateManyTx", "UpdateMany", "UpdateManyTx",
               "UpsertMany", "UpsertManyTx"}
RecordKnownWrites == RecordWrites \cup TxRecordWrites \cup BulkWrites

\* C11: every successful record-known write, the bulk forms included and
\* whatever number of records the base repository returns, issues the delete
\* of the exact keys namespace::get, namespace::list and namespace::count and
\* of the prefixes under them, and when the cache service performs the calls
\* no entry with such a key stays in the cache.
C11_RecordKnownWriteClearsQueries ==
    (last.op \in RecordKnownWrites /\ Succeeded(last))
    => \A token \in {"get", "list", "count"} :
          LET exact == namespace(last.d) \o "::" \o token
          IN  /\ DeleteCall(exact) \in Range(last.sweep)
              /\ DeleteByPrefixCall(exact \o "::") \in Range(last.sweep)
              /\ last.failed = {}
                 => \A k \in Keys(storage) :
                       k # exact /\ ~HasPrefix(k, exact \o "::")

\* the GetByID keys of an id, under every scope and criteria list
ByIDKeys(d, id) ==
    {lookupKey(d, "GetByID", ctx, id, criteria) :
        <<ctx, criteria>> \in Contexts \X CriteriaLists}

\* C13: after a successful Update of the record with id X, during which the
\* cache service performed the calls, no GetByID(X) entry is left in the cache
\* under any scope signature, whatever scope the context of the Update carries.
C13_UpdateClearsEveryScope ==
    (last.op = "Update" /\ Succeeded(last) /\ last.failed = {})
    => ByIDKeys(last.d, last.result.val.ID) \cap Keys(storage) = {}

\* an Update under one tenant removed the GetByID entry of its record that a
\* reader under another scope had stored
C13_Witness ==
    /\ last.op = "Update" /\ Succeeded(last) /\ last.failed = {}
    /\ last.ctx = TenantContext("tenant-a")
    /\ \E ctx \in Contexts \ {last.ctx}, criteria \in CriteriaLists :
          lookupKey(last.d, "GetByID", ctx, last.result.val.ID, criteria)
             \in last.removed

\* the write each transactional variant corresponds to
NonTx ==
    [CreateTx |-> "Create", UpdateTx |-> "Update", UpsertTx |-> "Upsert",
     DeleteTx |-> "Delete", DeleteManyTx |-> "DeleteMany",
     DeleteWhereTx |-> "DeleteWhere", CreateManyTx |-> "CreateMany",
     UpdateManyTx |-> "UpdateMany", UpsertManyTx |-> "UpsertMany"]

\* the sweep a write made, by the method and what the base repository returned
SweepMade(op, call) ==
    CASE op = "Create" -> invalidateAfterCreate(call.d, <<call.result.val>>)
      [] op \in {"Update", "Upsert"} -> invalidateAfterUpdate(call.d, call.result.val)
      [] op = "Delete" -> invalidateAfterDelete(call.d, call.record)
      [] op \in {"DeleteMany", "DeleteWhere"} -> invalidateAfterCriteriaOperation(call.d)
      [] op = "CreateMany" -> invalidateAfterBulkCreate(call.d, call.result.val)
      [] op \in {"UpdateMany", "UpsertMany"} ->
            invalidateAfterBulkUpdate(call.d, call.result.val)

\* C14: a transactional write issues no cache call when the base call fails,
\* and when it succeeds issues exactly the cache calls its non-transactional
\* counterpart issues for the same outcome of the base repository.
C14_TxWritesInvalidateAlike ==
    /\ (last.op \in DOMAIN NonTx /\ ~Succeeded(last))
       => last.sweep = <<>> /\ last.removed = {}
    /\ (last.op \in DOMAIN NonTx /\ Succeeded(last))
       => last.sweep = SweepMade(NonTx[last.op], last)
    /\ (last.op \in {NonTx[t] : t \in DOMAIN NonTx} /\ Succeeded(last))
       => last.sweep = SweepMade(last.op, last)

\* a transactional write succeeded and entries left the cache
C14_Witness ==
    /\ last.op \in DOMAIN NonTx
    /\ Succeeded(last)
    /\ last.removed # {}

BypassOps == DOMAIN Bypassed \cup {"Raw", "RawTx"}

\* C15: a call of GetTx, GetByIDTx, ListTx, CountTx, GetByIdentifierTx, Raw or
\* RawTx calls the base repository once, returns what the base repository
\* returns, and leaves the contents of the cache as they were.
C15_BypassLeavesCacheAlone ==
    [][last'.op \in BypassOps
       => /\ storage' = storage
          /\ last'.baseCalls = 1
          /\ last'.result \in
                (IF last'.op \in {"Raw", "RawTx"} THEN baseRaw(users[last'.d])
                 ELSE baseRead(users[last'.d], Bypassed[last'.op], last'.id))]_vars

\* GetByIDTx was called while the cache held the entry GetByID would have
\* returned for the same id, and the base repository was called
C15_Witness ==
    /\ last.op = "GetByIDTx"
    /\ lookupKey(last.d, "GetByID", last.ctx, last.id, NoCriteria) \in Keys(storage)
    /\ last.baseCalls = 1

\* the key is a target of the cache call
Targets(c, k) == IF c.call = "Delete" THEN k = c.arg ELSE HasPrefix(k, c.arg)

\* C16: when cache delete calls of the sweep of a successful write return an
\* error, the decorator still issues every call of the sweep, and every call
\* that returns no error removes its targets from the cache.
C16_SweepContinuesAfterError ==
    (last.op \in RecordWrites /\ Succeeded(last) /\ last.failed # {})
    => /\ last.sweep = SweepMade(last.op, last)
       /\ \A i \in 1..Len(last.sweep) :
             i \notin last.failed
             => \A k \in Keys(storage) : ~Targets(last.sweep[i], k)

\* the first call of a sweep returned an error and a later call of the same
\* sweep removed entries
C16_Witness ==
    /\ last.op \in RecordWrites /\ Succeeded(last)
    /\ last.failed = {1}
    /\ last.removed # {}

\* C17: the value and the error a write returns are those the base repository
\* returned to it, whether or not cache calls of the invalidation returned
\* errors.
C17_WriteReturnsBaseOutcome ==
    (last.op \in RecordKnownWrites \cup CriteriaDeletes)
    => last.result = last.base

\* a write succeeded in the base repository while every cache call of its
\* sweep returned an error
C17_Witness ==
    /\ last.op \in RecordWrites
    /\ last.base.err = NoError
    /\ last.failed = 1..Len(last.sweep)
    /\ Len(last.sweep) > 1

\* C18: every cache call of an invalidation that returns an error is logged
\* or reported by the decorator, and the write still returns the outcome of
\* the base repository.
C18_FailedInvalidationIsReported ==
    (last.op \in RecordKnownWrites \cup CriteriaDeletes)
    => /\ last.failed \subseteq last.reported
       /\ last.result = last.base

\* C19: whenever no SetScopeDefaults call is in progress, the calls made
\* through the decorator having returned, the scope defaults the decorator
\* builds its keys from equal those held by the base repository.
C19_DefaultsAgreeAfterCalls ==
    (\A s \in Setters : goroutines[s].pc \in {"start", "done"})
    => scopeDefaults["self"] = baseDefaults["self"]

\* the values written in full: the one of the construction and the one of
\* each SetScopeDefaults call made
WrittenInFull ==
    {NoDefaults} \cup {goroutines[s].defaults : s \in {t \in Setters : goroutines[t].pc # "start"}}

\* C20: under every interleaving of SetScopeDefaults calls and cached reads,
\* the scope defaults a read took and the key it built from them are those of
\* a value written in full, by the construction or by one SetScopeDefaults call.
C20_ReadsSeeWholeDefaults ==
    \A r \in Readers :
        /\ goroutines[r].pc \in {"RUnlock", "done"}
           => goroutines[r].seen \in WrittenInFull
        /\ goroutines[r].pc = "done"
           => goroutines[r].key \in
                 {keyUnder("self", Background, v) : v \in WrittenInFull}

\* a read took the defaults of one SetScopeDefaults call and built its key,
\* and a later call has replaced them, by a value of another length
C20_Witness ==
    \E r \in Readers :
        /\ goroutines[r].pc = "done"
        /\ goroutines[r].seen = TenantDefaults
        /\ scopeDefaults["self"] = RegionDefaults

\* the signature token of a read call, when the signature is not zero
SignaturePart(call) ==
    LET signature == scopeSignature(call.d, call.ctx)
    IN  IF IsZero(signature) THEN <<>> ELSE <<SignatureValue(signature)>>

\* the id or identifier argument of GetByID and GetByIdentifier
LookupPart(call) ==
    IF call.op \in {"GetByID", "GetByIdentifier"} THEN <<StringValue(call.id)>> ELSE <<>>

\* C21 as stated: the key of every cached read is the method key, then the
\* scope signature token when the signature is not zero, then the remaining
\* arguments of the call in call order.
C21_KeyIsMethodSignatureArguments ==
    ReadCall
    => last.key = SerializeKey(methodKey(last.d, last.op),
                               SignaturePart(last) \o LookupPart(last) \o last.criteria)

\* C21 amended: the key of Get, List and Count is the method key, then the
\* scope signature token when the signature is not zero, then the criteria;
\* the key of GetByID and GetByIdentifier is the method key, then the id or
\* identifier, then the scope signature token when the signature is not zero,
\* then the criteria.
C21_KeyIsMethodLookupSignatureCriteria ==
    ReadCall
    => last.key = SerializeKey(methodKey(last.d, last.op),
                               LookupPart(last) \o SignaturePart(last) \o last.criteria)

\* GetByID was called under a scope and with criteria
C21_Witness ==
    /\ last.op = "GetByID"
    /\ last.ctx = TenantContext("tenant-a")
    /\ last.criteria = SomeCriteria
    /\ last.key \in Keys(storage)

\* the map b is the map a: the same entries, met in another iteration order
SameEntries(x, y) ==
    /\ x.kind = "map" /\ y.kind = "map" /\ ~x.isNil /\ ~y.isNil
    /\ Len(x.entries) = Len(y.entries)
    /\ Range(x.entries) = Range(y.entries)
\* argument lists equal in structure: equal values, maps equal as maps
StructurallyEqual(a, b) ==
    /\ Len(a) = Len(b)
    /\ \A i \in 1..Len(a) : a[i] = b[i] \/ SameEntries(a[i], b[i])
BothReturned == serialized.first.returned /\ serialized.second.returned

\* C22: serializing the same method and arguments twice yields the same key,
\* and so does serializing structurally equal arguments built independently,
\* such as two equal maps filled in different orders.
C22_EqualArgumentsSameKey ==
    (BothReturned /\ StructurallyEqual(serialized.a, serialized.b))
        => serialized.first.key = serialized.second.key

\* C23: two reads that are logically distinct, differing in the type or the
\* value of any part of their arguments, get different keys.
C23_DistinctArgumentsDistinctKeys ==
    (BothReturned /\ ~StructurallyEqual(serialized.a, serialized.b))
        => serialized.first.key # serialized.second.key

\* strings.Contains
Contains(s, substr) ==
    \E i \in 1..(Len(s) - Len(substr) + 1) : SubSeq(s, i, i + Len(substr) - 1) = substr
\* the tokens SerializeKey joins after the method
Tokens(args) == [i \in 1..Len(args) |-> serializeValue(unfold(SampleHeap, args[i], 1))]

\* C24: no token contains the separator "::", so two different token
\* sequences never join into the same key.
C24_NoTokenContainsSeparator ==
    BothReturned =>
        /\ \A i \in 1..Len(serialized.a) :
              ~Contains(Tokens(serialized.a)[i], KeySeparator)
        /\ Tokens(serialized.a) # Tokens(serialized.b)
              => serialized.first.key # serialized.second.key

IntKeyMap    == MapValue(FALSE, <<MapEntry(IntValue(1), StringValue("v"))>>)
StringKeyMap == MapValue(FALSE, <<MapEntry(StringValue("1"), StringValue("v"))>>)

SameCriteriaFunction(x, y) ==
    /\ x.kind = "func" /\ y.kind = "func"
    /\ x.addr = y.addr /\ x.captured # y.captured

\* C26: reads that differ only in the parameter values of a criteria function,
\* such as Where("active", true) and Where("active", false), get different keys.
C26_CriteriaParametersDistinguish ==
    (Len(serialized.a) = 1 /\ Len(serialized.b) = 1
        /\ SameCriteriaFunction(serialized.a[1], serialized.b[1]))
        => serialized.first.key # serialized.second.key

\* C27: SerializeKey returns a key for every argument list, arguments reached
\* through pointers and nested containers included.
C27_SerializeKeyReturns ==
    serialized.first.returned /\ serialized.second.returned

\* the keys of the namespace of the decorator d
InNamespace(k, d) == HasPrefix(k, namespace(d) \o KeySeparator)

\* C28: a write through one decorator deletes no entry whose key belongs to
\* the namespace of another decorator on the same backend.
C28_WriteSparesOtherNamespaces ==
    last.op \in RecordWrites \cup CriteriaDeletes =>
        \A other \in Decorators \ {last.d} :
            \A k \in last.removed : ~InNamespace(k, other)

\* records and total as one base List invocation returns them
FromOneInvocation(val) ==
    /\ DOMAIN val = {"Records", "Total"}
    /\ val.Total = Cardinality(val.Records)
ListEntries == {k \in Keys(storage) : storage[k].type[1] = "listResult"}

\* C29: the records and the total a cached List returns come from the same
\* base List invocation, and they are stored, and so removed, as one entry.
C29_ListPairIsOneUnit ==
    /\ \A k \in ListEntries : FromOneInvocation(storage[k].val)
    /\ (last.op = "List" /\ Succeeded(last)) => FromOneInvocation(last.result.val)
    /\ \A k \in last.removed : k \notin Keys(storage)
C29_Witness ==
    /\ last.op \in RecordWrites /\ last.prev.op = "List"
    /\ last.prev.baseCalls = 0 /\ last.prev.result.val.Total > 0
    /\ last.prev.key \in last.removed

\* what the base repository answers to the read just made
BaseAnswers == baseRead(users[last.d], last.op, last.id)
CacheFailed == last.failed # {}
MissedOnBaseError ==
    /\ ~CacheFailed /\ last.baseCalls = 1
    /\ \A fetched \in BaseAnswers : fetched.err # NoError

TagCalls(call) == {c \in Range(call.sweep) : c.call \in {"RegisterTags", "InvalidateTags"}}

\* C31: on a cache service that implements TagRegistry every cached read
\* registers its key under tags, and every successful create, update or delete
\* invalidates tags.
C31_ReadsRegisterWritesInvalidateTags ==
    /\ (ReadCall /\ Succeeded(last) /\ last.baseCalls = 1)
          => \E c \in TagCalls(last) : c.call = "RegisterTags"
    /\ (last.op \in RecordWrites /\ Succeeded(last))
          => \E c \in TagCalls(last) : c.call = "InvalidateTags"

ErrInvalidResultType == "cache: invalid result type"
\* the read just made was answered with a stored value of another Go type
WrongTypeReturned ==
    /\ ReadCall /\ last.baseCalls = 0 /\ last.key \in Keys(storage)
    /\ storage[last.key].type # storedType(last.d, last.op)

\* C32: when the cache service returns a value whose type is not the requested
\* result type, the typed GetOrFetch returns the zero value together with
\* ErrInvalidResultType.
C32_WrongTypeIsAnError ==
    WrongTypeReturned => last.result = Result(zeroOf(last.op), ErrInvalidResultType)

\* a configuration with TTL set and every other field at its zero value
OnlyTTL(config) ==
    /\ config.TTL > 0 /\ config.Capacity = 0 /\ config.NumShards = 0
    /\ config.EvictionPercentage = 0 /\ config.EarlyRefresh.isNil
    /\ ~config.MissingRecordStorage /\ config.EvictionInterval = 0

BothDone == goroutines["r1"].pc = "done" /\ goroutines["s1"].pc = "done"
LaterGetByID ==
    /\ BothDone /\ last.op = "GetByID" /\ Succeeded(last)
    /\ nops > goroutines["r1"].at /\ nops > goroutines["s1"].at
    /\ last.id = goroutines["s1"].record.ID
    /\ goroutines["s1"].record # goroutines["s1"].before

\* C34: after a GetByID miss and a successful Update of the same id ran
\* concurrently and both returned, a later GetByID(id) never returns the
\* record as it was before the update.
C34_RacingReadNeverLeavesStale ==
    (LaterGetByID /\ goroutines["r1"].missed /\ goroutines["r1"].id = last.id)
        => last.result.val # goroutines["s1"].before

\* the transaction has committed and the call made last was made after it
AfterCommit ==
    /\ goroutines["s1"].pc = "done" /\ nops > goroutines["s1"].at
    /\ last.op = "GetByID" /\ last.id = goroutines["s1"].record.ID

\* C35: after a transaction that contains an UpdateTx commits, a later GetByID
\* for that id returns the committed record, also when another GetByID for
\* the id ran between the UpdateTx call and the commit.
C35_CommittedRecordIsRead ==
    AfterCommit => last.result = Result(goroutines["s1"].record, NoError)

\* C36: every entry stored under a key that carries the scope signature S holds
\* a result the base repository produced while applying the scope S, also when
\* SetScopeDefaults runs concurrently with the read.
C36_EntryMatchesScopeOfKey ==
    \A g \in Readers :
        (goroutines[g].pc = "stored" /\ goroutines[g].key \in Keys(storage))
            => storage[goroutines[g].key].signature = goroutines[g].applied

\* the by-identifier entries that still hold the record a write affected
StaleByIdentifier(call) ==
    {k \in Keys(storage) :
        /\ HasPrefix(k, methodPrefixWithSeparator(call.d, "GetByIdentifier"))
        /\ storage[k].type = storedType(call.d, "GetByIdentifier")
        /\ storage[k].val.ID = call.record.ID
        /\ (call.op = "Delete" \/ storage[k].val.Email # call.record.Email)}

\* C37: after a successful Update or Delete of a record no by-identifier entry
\* still holds that record under an identifier value it had before the write.
C37_OldIdentifierEntriesRemoved ==
    (last.op \in {"Update", "Delete"} /\ Succeeded(last))
        => StaleByIdentifier(last) = {}

\* the decorator cannot extract an id from the record
NoExtractableID(record) == ~extractID(record).ok \/ extractID(record).id = ""
KeyOf(record) == IF HasField(record, "Key") THEN record.Key ELSE record.ID

\* C38: after a successful update or delete of a record whose id the
\* decorator cannot extract, a later GetByID for that record reaches the base
\* repository instead of returning the value cached before the write.
C38_UnextractableIDStillRefetched ==
    (/\ last.op = "GetByID"
     /\ last.prev.op \in {"Update", "Delete"} /\ Succeeded(last.prev)
     /\ NoExtractableID(last.prev.record) /\ KeyOf(last.prev.record) = last.id)
        => last.baseCalls = 1

\* C39: with a key serializer other than the default one passed to New, a
\* GetByID(X) that follows a successful Update of id X is fetched from the
\* base repository again.
C39_InvalidationFollowsSerializer ==
    (/\ last.op = "GetByID" /\ last.key = keyWith(MyApp, last.d, "GetByID", <<StringValue(last.id)>>)
     /\ last.prev.op = "Update" /\ Succeeded(last.prev)
     /\ last.prev.record.ID = last.id)
        => last.baseCalls = 1

\* the cache calls issued so far are the first ones of the sweep, in its order
IssuedInOrder(g) ==
    /\ Len(g.issued) <= Len(g.sweep)
    /\ \A i \in 1..Len(g.issued) : g.issued[i] = g.sweep[i]

\* C40: within one write call the write of the base repository has returned
\* before the first cache delete is issued, and the deletes of the sweep are
\* issued one after another in the order of the sweep, at most one of them
\* not yet returned.
C40_WriteThenSequentialSweep ==
    LET g == goroutines["s1"]
    IN  g.pc # "start" =>
            /\ g.issued # <<>> => g.written
            /\ g.inFlight <= 1
            /\ IssuedInOrder(g)

\* the base repository has returned, and one delete in the middle of the
\* sweep is on its way
C40_Witness ==
    LET g == goroutines["s1"]
    IN  /\ g.pc = "invalidate" /\ g.written
        /\ Len(g.issued) > 1 /\ Len(g.issued) < Len(g.sweep)
        /\ g.inFlight = 1

====
